---- MODULE Spec2Model ----
(***************************************************************************)
(* Model of the response-streaming pumps of ai_rs:                         *)
(*   OllamaClient::stream_completion          (src/src/ollama/client.rs)   *)
(*   GeminiClient::stream_content_with_request (src/src/gemini/client.rs)  *)
(* A spawned task pulls byte chunks from the HTTP body, splits every chunk *)
(* into lines, decodes each line and publishes the result on a bounded     *)
(* tokio mpsc channel whose receiving half is handed to the caller.        *)
(*                                                                         *)
(* Bytes and characters are short strings: ASCII bytes stand for           *)
(* themselves, "LF" and "CR" are the line feed and carriage return, "C3"   *)
(* "A9" is the two-byte UTF-8 encoding of U+00E9 (character "E9") and      *)
(* "FFFD" is the replacement character.  A JSON record is abstracted to    *)
(* the text  { t* !? }  where t* is the response text and "!" stands for   *)
(* "done": true.                                                           *)
(***************************************************************************)
EXTENDS Naturals, Sequences, FiniteSets

VARIABLES
    op,             \* the client method called: "stream", "active", "generate" or "content"
    http,           \* how the HTTP exchange of the call goes
    body,           \* text of the body of a success response to a non-streaming call
    ret,            \* what the call returned to the caller
    stalls,         \* TRUE when the body, after the script, never reports again
    provider,       \* which client started the stream: "ollama" or "gemini"
    script,         \* what the transport will report, in order
    endless,        \* TRUE when the body never ends (the script repeats)
    pos,            \* index in script of the next item the transport reports
    pc,             \* position of the spawned task
    lines,          \* lines of the current chunk the for loop still has to visit
    chan,           \* events queued in the mpsc channel
    rx,             \* receiving half: "open" or "dropped"
    received,       \* events the consumer has pulled
    eos,            \* the consumer has observed end-of-sequence
    produced,       \* history: events accepted by the channel
    sources,        \* history: the line each of these events was decoded from
    sendFailed,     \* history: a publish returned Err (receiver gone)
    readAfterFail,  \* history: the transport was polled after a failed publish
    doneSeen,       \* history: a record with done = true was published
    readAfterDone,  \* history: the transport was polled after doneSeen
    sentinelSeen,   \* history: a [DONE] line was recognized
    readAfterSentinel, \* history: the transport was polled after sentinelSeen
    sentAfterSentinel, \* history: an event was published after sentinelSeen
    errored,        \* history: the transport reported a failure
    readAfterError  \* history: the transport was polled after it failed

vars == <<op, http, body, ret, stalls, provider, script, endless, pos, pc, lines, chan, rx, received, eos,
          produced, sources, sendFailed, readAfterFail, doneSeen, readAfterDone,
          sentinelSeen, readAfterSentinel, sentAfterSentinel, errored,
          readAfterError>>

-----------------------------------------------------------------------------
(* Bounds of the model *)

MaxLines == 3          \* lines in a generated body
MaxChunks == 2         \* chunks a generated body is split into
BPChunks == 26         \* chunks of the back-pressure script
MaxEndlessRecv == 2    \* events a consumer pulls from a never-ending body
MaxRecords == 3        \* lines in the body of a non-streaming response
MaxMembers == 2        \* members of the JSON object in a generateContent body

-----------------------------------------------------------------------------
(* Text helpers *)

LF == "LF"
CR == "CR"
SP == " "

Providers == {"ollama", "gemini"}

RECURSIVE Concat(_)
Concat(ss) == IF ss = <<>> THEN <<>> ELSE Head(ss) \o Concat(Tail(ss))

Last(s) == s[Len(s)]

Front(s) == SubSeq(s, 1, Len(s) - 1)

IsPrefix(s, t) == Len(s) <= Len(t) /\ SubSeq(t, 1, Len(s)) = s

-----------------------------------------------------------------------------
(* Byte decoding: String::from_utf8 and String::from_utf8_lossy *)

\* String::from_utf8 succeeds only when every byte belongs to a complete,
\* well-formed encoding: a lead byte C3 needs its continuation byte A9.
RECURSIVE IsValidUtf8(_)
IsValidUtf8(b) ==
    IF b = <<>> THEN TRUE
    ELSE IF Head(b) = "C3"
         THEN Len(b) >= 2 /\ b[2] = "A9" /\ IsValidUtf8(SubSeq(b, 3, Len(b)))
    ELSE IF Head(b) = "A9" THEN FALSE
    ELSE IsValidUtf8(Tail(b))

\* String::from_utf8_lossy: well-formed encodings become their character,
\* every ill-formed byte becomes U+FFFD.
RECURSIVE Utf8Lossy(_)
Utf8Lossy(b) ==
    IF b = <<>> THEN <<>>
    ELSE IF Head(b) = "C3"
         THEN IF Len(b) >= 2 /\ b[2] = "A9"
              THEN <<"E9">> \o Utf8Lossy(SubSeq(b, 3, Len(b)))
              ELSE <<"FFFD">> \o Utf8Lossy(Tail(b))
    ELSE IF Head(b) = "A9" THEN <<"FFFD">> \o Utf8Lossy(Tail(b))
    ELSE <<Head(b)>> \o Utf8Lossy(Tail(b))

\* The text of a chunk as each pump sees it.  Ollama: String::from_utf8,
\* and the chunk is skipped when it fails.  Gemini: String::from_utf8_lossy.
ChunkStr(p, b) ==
    IF p = "ollama"
    THEN IF IsValidUtf8(b) THEN [ok |-> TRUE, str |-> Utf8Lossy(b)]
                           ELSE [ok |-> FALSE, str |-> <<>>]
    ELSE [ok |-> TRUE, str |-> Utf8Lossy(b)]

-----------------------------------------------------------------------------
(* str::lines, str::trim, str::starts_with *)

StripCR(l) == IF l # <<>> /\ Last(l) = CR THEN Front(l) ELSE l

\* str::lines: pieces are cut after every line feed; a piece loses its line
\* feed and then one carriage return before it; text after the last line
\* feed is a line of its own; an empty remainder is no line.
RECURSIVE LinesAcc(_, _)
LinesAcc(s, cur) ==
    IF s = <<>> THEN (IF cur = <<>> THEN <<>> ELSE <<cur>>)
    ELSE IF Head(s) = LF THEN <<StripCR(cur)>> \o LinesAcc(Tail(s), <<>>)
    ELSE LinesAcc(Tail(s), Append(cur, Head(s)))

Lines(s) == LinesAcc(s, <<>>)

IsWhitespace(c) == c \in {SP, CR, LF}

RECURSIVE TrimStart(_)
TrimStart(s) ==
    IF s # <<>> /\ IsWhitespace(Head(s)) THEN TrimStart(Tail(s)) ELSE s

RECURSIVE TrimEnd(_)
TrimEnd(s) ==
    IF s # <<>> /\ IsWhitespace(Last(s)) THEN TrimEnd(Front(s)) ELSE s

Trim(s) == TrimEnd(TrimStart(s))

StartsWith(s, p) == IsPrefix(p, s)

DataPrefix == <<"d", "a", "t", "a", ":", SP>>

DoneToken == <<"[", "D", "O", "N", "E", "]">>

-----------------------------------------------------------------------------
(* serde_json::from_str on one line *)

TextChars == {"a", "b", "E9", "FFFD"}

\* The record grammar: optional whitespace, "{", response text, an optional
\* "!" (done = true), "}", optional whitespace.  Anything else is an error.
IsRecordText(t) ==
    /\ Len(t) >= 2
    /\ t[1] = "{"
    /\ t[Len(t)] = "}"
    /\ \A i \in 2..(Len(t) - 1) :
          \/ t[i] \in TextChars
          \/ t[i] = "!" /\ i = Len(t) - 1

FromStr(line) ==
    LET t == Trim(line)
    IN  IF IsRecordText(t)
        THEN LET isDone == Len(t) >= 3 /\ t[Len(t) - 1] = "!"
                 txtEnd == IF isDone THEN Len(t) - 2 ELSE Len(t) - 1
             IN  [kind |-> "Ok", response |-> SubSeq(t, 2, txtEnd), done |-> isDone]
        ELSE [kind |-> "ParseError", response |-> <<>>, done |-> FALSE]

NetworkError == [kind |-> "NetworkError", response |-> <<>>, done |-> FALSE]

-----------------------------------------------------------------------------
(* What the transport reports: scripts of chunks and failures *)

Chunk(b) == [ok |-> TRUE, bytes |-> b]

Failure == [ok |-> FALSE, bytes |-> <<>>]

RecA == <<"{", "a", "}">>

RecDone == <<"{", "b", "!", "}">>

BadLine == <<"x">>

BaseLines == {RecA, RecDone, BadLine, DoneToken}

ExtraLines ==
    { DataPrefix \o RecA, DataPrefix \o DoneToken, <<SP>>, <<>>,
      <<"{", "C3", "A9", "}">>, RecA \o <<CR>>, <<SP>> \o DoneToken \o <<SP>>,
      DataPrefix \o <<SP>> \o DoneToken \o <<SP>>, DataPrefix }

RECURSIVE Body(_)
Body(ls) == IF ls = <<>> THEN <<>> ELSE Head(ls) \o <<LF>> \o Body(Tail(ls))

BaseBodies == UNION { [1..n -> BaseLines] : n \in 1..MaxLines }

ExtraBodies ==
    UNION { {<<e>>, <<e, RecA>>, <<RecA, e>>} : e \in ExtraLines }

\* Every way of cutting b into at most k non-empty chunks.
RECURSIVE SplitsInto(_, _)
SplitsInto(b, k) ==
    IF k <= 1 \/ Len(b) <= 1 THEN {<<Chunk(b)>>}
    ELSE {<<Chunk(b)>>} \cup
         UNION { { <<Chunk(SubSeq(b, 1, i))>> \o r :
                     r \in SplitsInto(SubSeq(b, i + 1, Len(b)), k - 1) } :
                 i \in 1..(Len(b) - 1) }

SplitScripts ==
    UNION { SplitsInto(Body(ls), MaxChunks) : ls \in BaseBodies \cup ExtraBodies }

\* A failure of the byte source, before, between and after chunks.
FailureScripts ==
    LET heads == {<<>>} \cup UNION { SplitsInto(Body(<<l>>), 2) : l \in BaseLines }
        tails == {<<>>, <<Chunk(Body(<<RecA>>))>>}
    IN  { h \o <<Failure>> \o t : h \in heads, t \in tails }

\* Many chunks of four records each: more events than either channel holds.
BPScript == [i \in 1..BPChunks |-> Chunk(Body(<<RecA, RecA, RecA, RecA>>))]

\* Bodies that never end: the same chunk, holding a record, over and over.
EndlessScripts == { <<Chunk(Body(<<RecA>>))>>, <<Chunk(Body(<<<<>>, RecA>>))>> }

\* Bodies that go silent: after these chunks the transport reports nothing,
\* neither a chunk nor the end nor a failure.
StallScripts == { <<>>, <<Chunk(Body(<<RecA>>))>> }

Scenarios ==
    { [script |-> s, endless |-> FALSE, stalls |-> FALSE] :
        s \in SplitScripts \cup FailureScripts \cup {BPScript, <<>>} }
    \cup { [script |-> s, endless |-> TRUE, stalls |-> FALSE] : s \in EndlessScripts }
    \cup { [script |-> s, endless |-> FALSE, stalls |-> TRUE] : s \in StallScripts }

-----------------------------------------------------------------------------
(* The channel *)

OllamaCapacity == 32

GeminiCapacity == 100

Capacity(p) == IF p = "ollama" THEN OllamaCapacity ELSE GeminiCapacity

\* A send that lets one event more than the capacity into the channel.
HasPermitOffByOne(q, p) == Len(q) <= Capacity(p)

\* Sender::send completes when the receiver is gone (with Err) or when the
\* channel has a free slot; otherwise the task stays suspended in the await.
HasPermit(q, p) == Len(q) < Capacity(p)

\* A channel that hands out the newest event first.
EnqueueFront(q, ev) == <<ev>> \o q

Enqueue(q, ev) == Append(q, ev)

-----------------------------------------------------------------------------
(* One iteration of the `for line in chunk_str.lines()` loop *)

Skip == [act |-> "continue", ev |-> NetworkError]

Break == [act |-> "break", ev |-> NetworkError]

Publish(ev) == [act |-> "send", ev |-> ev]

OllamaLine(line) ==
    IF line = <<>> THEN Skip
    ELSE Publish(FromStr(line))

\* A comparison with the sentinel that does not trim the text first.
GeminiLineNoTrim(line) ==
    IF Trim(line) = <<>> THEN Skip
    ELSE LET json_str == IF StartsWith(line, DataPrefix)
                         THEN SubSeq(line, 7, Len(line))
                         ELSE line
         IN  IF json_str = DoneToken THEN Break
             ELSE Publish(FromStr(json_str))

GeminiLine(line) ==
    IF Trim(line) = <<>> THEN Skip
    ELSE LET json_str == IF StartsWith(line, DataPrefix)
                         THEN SubSeq(line, 7, Len(line))
                         ELSE line
         IN  IF Trim(json_str) = DoneToken THEN Break
             ELSE Publish(FromStr(json_str))

\* A loop that gives up on the chunk at the first line that fails to decode.
LineStepBreaksOnMalformed(p, line) ==
    LET st == IF p = "ollama" THEN OllamaLine(line) ELSE GeminiLine(line)
    IN  IF st.act = "send" /\ st.ev.kind = "ParseError" THEN Break ELSE st

LineStep(p, line) == IF p = "ollama" THEN OllamaLine(line) ELSE GeminiLine(line)

\* Lines the for loop will visit for a chunk.
ChunkLines(p, b) ==
    LET c == ChunkStr(p, b) IN IF c.ok THEN Lines(c.str) ELSE <<>>

-----------------------------------------------------------------------------
(* The HTTP exchange of a call *)

Statuses == 100..599

\* StatusCode::is_success
IsSuccess(status) == status \in 200..299

\* sent: send().await returned a response; text: what response.text().await
\* gives for the body of a response that is not a success.
Exchange(sent, status, text) == [sent |-> sent, status |-> status, text |-> text]

BodyText == [ok |-> TRUE, str |-> "body"]

BodyUnreadable == [ok |-> FALSE, str |-> ""]

SendFailed == Exchange(FALSE, 0, BodyUnreadable)

Accepted == Exchange(TRUE, 200, BodyText)

\* A success status whose body cannot be read to its end.
AcceptedUnreadable == Exchange(TRUE, 200, BodyUnreadable)

Refusals ==
    { Exchange(TRUE, st, t) : st \in {x \in Statuses : ~IsSuccess(x)},
                             t \in {BodyText, BodyUnreadable} }

Exchanges ==
    {SendFailed} \cup { Exchange(TRUE, st, BodyText) : st \in Statuses }

\* What a call hands back.
Returned(kind, msg) == [kind |-> kind, msg |-> msg]

Pending == Returned("pending", "")

\* What a call hands back when it succeeds with a value.
ReturnedValue(v) == [kind |-> "Ok", msg |-> "", value |-> v]

-----------------------------------------------------------------------------
(* GenerateResponse and its decoding from one line of a body *)

None == "None"

OptionalFields ==
    {"done_reason", "context", "total_duration", "load_duration",
     "prompt_eval_count", "prompt_eval_duration", "eval_count", "eval_duration"}

\* Members of a record text beyond the response text and "!": "m2" and "t2"
\* stand for a "model" and a "created_at" other than those of the other
\* records ("m1", "t1"); every other token stands for one optional member
\* with one value.
MemberOf ==
    [ m2 |-> "model", t2 |-> "created_at",
      dr1 |-> "done_reason", dr2 |-> "done_reason", cx1 |-> "context",
      td1 |-> "total_duration", ld1 |-> "load_duration",
      pc1 |-> "prompt_eval_count", pd1 |-> "prompt_eval_duration",
      ec1 |-> "eval_count", ec2 |-> "eval_count", ec3 |-> "eval_count",
      ed1 |-> "eval_duration" ]

IsCore(c) == c \in TextChars \cup {"!"}

IsMember(c) == ~IsCore(c)

\* The value of member f among the member tokens ms, dflt when there is none.
MemberValue(ms, f, dflt) ==
    IF \E i \in 1..Len(ms) : MemberOf[ms[i]] = f
    THEN ms[CHOOSE i \in 1..Len(ms) : MemberOf[ms[i]] = f]
    ELSE dflt

\* serde_json::from_str::<GenerateResponse>: the record grammar of FromStr
\* followed, before "}", by member tokens, each member at most once.
ParseResponse(line) ==
    LET t == Trim(line)
        inner == IF Len(t) >= 2 THEN SubSeq(t, 2, Len(t) - 1) ELSE <<>>
        core == SelectSeq(inner, IsCore)
        ms == SelectSeq(inner, IsMember)
        base == FromStr(<<"{">> \o core \o <<"}">>)
    IN  IF /\ Len(t) >= 2
           /\ t[1] = "{"
           /\ t[Len(t)] = "}"
           /\ inner = core \o ms
           /\ base.kind = "Ok"
           /\ \A i \in 1..Len(ms) : ms[i] \in DOMAIN MemberOf
           /\ \A i, j \in 1..Len(ms) : MemberOf[ms[i]] = MemberOf[ms[j]] => i = j
        THEN [ ok |-> TRUE,
               value |->
                 [ model |-> MemberValue(ms, "model", "m1"),
                   created_at |-> MemberValue(ms, "created_at", "t1"),
                   response |-> base.response,
                   done |-> base.done,
                   optional |-> [f \in OptionalFields |-> MemberValue(ms, f, None)] ] ]
        ELSE [ok |-> FALSE, value |-> None]

\* Option::or
Or(x, y) == IF x # None THEN x ELSE y

\* Option::xor
Xor(x, y) == IF x # None /\ y = None THEN x ELSE IF x = None THEN y ELSE None

\* A merge that combines the optional members with `xor` instead of `or`.
MergeXor(self, other) ==
    [ model |-> self.model,
      created_at |-> self.created_at,
      response |-> self.response \o other.response,
      done |-> other.done,
      optional |-> [f \in OptionalFields |-> Xor(other.optional[f], self.optional[f])] ]

\* GenerateResponse::merge
Merge(self, other) ==
    [ model |-> self.model,
      created_at |-> self.created_at,
      response |-> self.response \o other.response,
      done |-> other.done,
      optional |-> [f \in OptionalFields |-> Or(other.optional[f], self.optional[f])] ]

\* A loop body that replaces final_response by every record it decodes.
AccumulateKeepsLast(has, acc, v) == v

\* The body of the loop after decoding: merge into final_response when it
\* is Some (has), set it otherwise.
Accumulate(has, acc, v) == IF has THEN Merge(acc, v) ELSE v

\* A loop that passes over the lines that fail to decode.
RECURSIVE MergeLinesSkipsBadLines(_, _, _, _)
MergeLinesSkipsBadLines(ls, i, has, acc) ==
    IF i > Len(ls)
    THEN IF has THEN ReturnedValue(acc)
         ELSE Returned("ParseError", "No valid JSON objects found in response")
    ELSE LET r == ParseResponse(ls[i])
         IN  IF ~r.ok THEN MergeLinesSkipsBadLines(ls, i + 1, has, acc)
             ELSE MergeLinesSkipsBadLines(ls, i + 1, TRUE, Accumulate(has, acc, r.value))

\* The `for line in response_text.lines()` loop of generate_completion from
\* the i-th line on, final_response being acc (has = FALSE: None), and the
\* result built after the loop.
RECURSIVE MergeLines(_, _, _, _)
MergeLines(ls, i, has, acc) ==
    IF i > Len(ls)
    THEN IF has THEN ReturnedValue(acc)
         ELSE Returned("ParseError", "No valid JSON objects found in response")
    ELSE LET r == ParseResponse(ls[i])
         IN  IF ~r.ok THEN Returned("ParseError", "serde")
             ELSE MergeLines(ls, i + 1, TRUE, Accumulate(has, acc, r.value))

\* OllamaClient::generate_completion: `?` on send, the status test, `?` on
\* text(), then the loop over the lines.
GenerateResult(h, b) ==
    IF ~h.sent THEN Returned("NetworkError", "")
    ELSE IF ~h.text.ok THEN Returned("NetworkError", "")
    ELSE IF IsSuccess(h.status) THEN MergeLines(Lines(b), 1, FALSE, None)
    ELSE Returned("RequestError", h.text.str)

\* Lines of the bodies of non-streaming responses.
GenerateLines ==
    { RecA,
      <<"{", "b", "!", "m2", "t2", "dr1", "ec1", "}">>,
      <<"{", "a", "ec2", "cx1", "td1", "}">>,
      <<"{", "dr2", "ec3", "ld1", "pc1", "pd1", "ed1", "}">>,
      BadLine,
      <<>> }

GenerateBodies ==
    {<<>>} \cup UNION { { Body(ls) : ls \in [1..n -> GenerateLines] } : n \in 1..MaxRecords }

-----------------------------------------------------------------------------
(* GeminiClient::generate_content_with_request *)

\* Members of the JSON object of a body: "error" is an `error` member with
\* an object as value, "error:null" one with null; "candidates" is a
\* `candidates` member that fits Vec<Candidate>, "candidates?" one that does
\* not; "other" is a member the schema does not know.
JsonMembers == {"error", "error:null", "candidates", "candidates?", "other"}

IsJsonMember(c) == c \in JsonMembers

\* response.json::<serde_json::Value>(): an object `{ members }` or the
\* empty array `[ ]`, with optional whitespace around; anything else fails.
ParseJson(b) ==
    LET t == Trim(b)
        inner == IF Len(t) >= 2 THEN SubSeq(t, 2, Len(t) - 1) ELSE <<>>
    IN  IF Len(t) >= 2 /\ t[1] = "{" /\ t[Len(t)] = "}" /\ inner = SelectSeq(inner, IsJsonMember)
        THEN [ok |-> TRUE, object |-> TRUE, members |-> inner]
        ELSE IF t = <<"[", "]">>
        THEN [ok |-> TRUE, object |-> FALSE, members |-> <<>>]
        ELSE [ok |-> FALSE, object |-> FALSE, members |-> <<>>]

IsErrorMember(c) == c \in {"error", "error:null"}

\* Value::get("error"): the member when the value is an object that has it.
GetError(v) == SelectSeq(v.members, IsErrorMember)

\* serde_json::from_value::<GenerateContentResponse>: the value must be an
\* object whose `candidates` member fits; unknown members are ignored.
FromValue(v) ==
    /\ v.object
    /\ \E i \in 1..Len(v.members) : v.members[i] = "candidates"
    /\ \A i \in 1..Len(v.members) : v.members[i] # "candidates?"

\* A call that decodes the schema first and looks for `error` only when
\* that fails.
ContentResultDecodesFirst(h, b) ==
    IF ~h.sent THEN Returned("NetworkError", "")
    ELSE IF ~h.text.ok THEN Returned("NetworkError", "")
    ELSE IF IsSuccess(h.status)
         THEN LET v == ParseJson(b)
              IN  IF ~v.ok THEN Returned("NetworkError", "")
                  ELSE IF FromValue(v) THEN ReturnedValue(v.members)
                  ELSE IF GetError(v) # <<>> THEN Returned("ApiError", GetError(v)[1])
                  ELSE Returned("ParseError", "serde")
    ELSE Returned("RequestError", h.text.str)

\* generate_content_with_request: `?` on send, the status test, `?` on
\* json(), the `error` member, then from_value with `?`; for the other
\* statuses `?` on text().
ContentResult(h, b) ==
    IF ~h.sent THEN Returned("NetworkError", "")
    ELSE IF ~h.text.ok THEN Returned("NetworkError", "")
    ELSE IF IsSuccess(h.status)
         THEN LET v == ParseJson(b)
              IN  IF ~v.ok THEN Returned("NetworkError", "")
                  ELSE IF GetError(v) # <<>> THEN Returned("ApiError", GetError(v)[1])
                  ELSE IF FromValue(v) THEN ReturnedValue(v.members)
                  ELSE Returned("ParseError", "serde")
    ELSE Returned("RequestError", h.text.str)

\* Sequences of at most n different members.
RECURSIVE MemberLists(_)
MemberLists(n) ==
    IF n = 0 THEN {<<>>}
    ELSE MemberLists(n - 1) \cup
         { Append(ms, m) : ms \in { x \in MemberLists(n - 1) : Len(x) = n - 1 },
                           m \in JsonMembers }

Distinct(ms) == \A i, j \in 1..Len(ms) : ms[i] = ms[j] => i = j

ContentBodies ==
    {<<>>, BadLine, <<"[", "]">>}
    \cup { <<"{">> \o ms \o <<"}">> : ms \in {x \in MemberLists(MaxMembers) : Distinct(x)} }

-----------------------------------------------------------------------------
(* State when a client method has been called and its request is on its    *)
(* way: no channel and no task exist yet                                   *)

Init ==
    /\ \/ /\ op = "stream"
          /\ provider \in Providers
          /\ \/ /\ http = Accepted
                /\ \E sc \in Scenarios :
                      script = sc.script /\ endless = sc.endless /\ stalls = sc.stalls
             \/ /\ http \in {SendFailed} \cup Refusals
                /\ script = <<>> /\ endless = FALSE /\ stalls = FALSE
       \/ /\ op = "active"
          /\ provider = "ollama"
          /\ http \in Exchanges
          /\ script = <<>> /\ endless = FALSE /\ stalls = FALSE
       \/ /\ op = "generate"
          /\ provider = "ollama"
          /\ http \in {SendFailed, Accepted, AcceptedUnreadable} \cup Refusals
          /\ script = <<>> /\ endless = FALSE /\ stalls = FALSE
       \/ /\ op = "content"
          /\ provider = "gemini"
          /\ http \in {SendFailed, Accepted, AcceptedUnreadable} \cup Refusals
          /\ script = <<>> /\ endless = FALSE /\ stalls = FALSE
    /\ IF op = "generate" /\ http = Accepted THEN body \in GenerateBodies
       ELSE IF op = "content" /\ http = Accepted THEN body \in ContentBodies
       ELSE body = <<>>
    /\ ret = Pending
    /\ pos = 1
    /\ pc = "start"
    /\ lines = <<>>
    /\ chan = <<>>
    /\ rx = "none"
    /\ received = <<>>
    /\ eos = FALSE
    /\ produced = <<>>
    /\ sources = <<>>
    /\ sendFailed = FALSE
    /\ readAfterFail = FALSE
    /\ doneSeen = FALSE
    /\ readAfterDone = FALSE
    /\ sentinelSeen = FALSE
    /\ readAfterSentinel = FALSE
    /\ sentAfterSentinel = FALSE
    /\ errored = FALSE
    /\ readAfterError = FALSE

inputVars == <<op, http, body, stalls, provider, script, endless>>

consumerVars == <<rx, received, eos>>

historyVars == <<produced, sources, sendFailed, readAfterFail, doneSeen, readAfterDone,
                 sentinelSeen, readAfterSentinel, sentAfterSentinel, errored,
                 readAfterError>>

-----------------------------------------------------------------------------
(* The calls *)

\* A stream call that creates the channel and spawns the task before it
\* has looked at the status.
StartResultSpawnsFirst(h) ==
    IF ~h.sent THEN [ret |-> Returned("NetworkError", ""), spawn |-> FALSE]
    ELSE IF ~IsSuccess(h.status)
         THEN [ret |-> Returned("RequestError", h.text.str), spawn |-> TRUE]
    ELSE [ret |-> Returned("Stream", ""), spawn |-> TRUE]

\* stream_completion / stream_content_with_request up to the return: `?` on
\* send, the status test with `?` on text(), then channel, spawn and Ok(rx).
StartResult(h) ==
    IF ~h.sent THEN [ret |-> Returned("NetworkError", ""), spawn |-> FALSE]
    ELSE IF ~IsSuccess(h.status)
         THEN IF h.text.ok
              THEN [ret |-> Returned("RequestError", h.text.str), spawn |-> FALSE]
              ELSE [ret |-> Returned("NetworkError", ""), spawn |-> FALSE]
    ELSE [ret |-> Returned("Stream", ""), spawn |-> TRUE]

\* OllamaClient::active: `?` on send, then Ok(true) or Ok(false) by status.
ActiveResult(h) ==
    IF ~h.sent THEN Returned("NetworkError", "")
    ELSE IF IsSuccess(h.status) THEN Returned("Ok", "true")
    ELSE Returned("Ok", "false")

\* The stream call returns
StartStream ==
    /\ op = "stream"
    /\ pc = "start"
    /\ LET r == StartResult(http)
       IN  /\ ret' = r.ret
           /\ pc' = IF r.spawn THEN "next" ELSE "returned"
           /\ rx' = IF r.spawn THEN "open" ELSE rx
    /\ UNCHANGED <<inputVars, pos, lines, chan, received, eos, historyVars>>

\* The generate_content_with_request call returns
ContentCall ==
    /\ op = "content"
    /\ pc = "start"
    /\ ret' = ContentResult(http, body)
    /\ pc' = "returned"
    /\ UNCHANGED <<inputVars, consumerVars, pos, lines, chan, historyVars>>

\* The generate_completion call returns
GenerateCall ==
    /\ op = "generate"
    /\ pc = "start"
    /\ ret' = GenerateResult(http, body)
    /\ pc' = "returned"
    /\ UNCHANGED <<inputVars, consumerVars, pos, lines, chan, historyVars>>

\* The active call returns
ActiveCall ==
    /\ op = "active"
    /\ pc = "start"
    /\ ret' = ActiveResult(http)
    /\ pc' = "returned"
    /\ UNCHANGED <<inputVars, consumerVars, pos, lines, chan, historyVars>>

-----------------------------------------------------------------------------
(* The spawned task *)

\* Where the task continues when `break` leaves the for loop, or the loop
\* runs out of lines: the enclosing `while let` polls the transport again.
\* A loop exit that ends the task instead of the for loop only.
AfterForLoopReturns == "done"

AfterForLoop == "next"

\* A task that goes on polling the transport after it reported a failure.
AfterNetworkErrorKeepsReading == "next"

\* Where the task continues after the NetworkError was handed to send:
\* `break` leaves the while loop and the task returns.
AfterNetworkError == "done"

LoopPc(rest) == IF rest = <<>> THEN AfterForLoop ELSE "lines"

\* The transport hands over an item: history of what had happened before.
TookItem ==
    /\ pos' = IF endless /\ pos = Len(script) THEN 1 ELSE pos + 1
    /\ readAfterFail' = (readAfterFail \/ sendFailed)
    /\ readAfterDone' = (readAfterDone \/ doneSeen)
    /\ readAfterSentinel' = (readAfterSentinel \/ sentinelSeen)
    /\ readAfterError' = (readAfterError \/ errored)

\* stream.next() yields Some(Ok(chunk))
ReadChunk ==
    /\ pc = "next"
    /\ pos <= Len(script)
    /\ script[pos].ok
    /\ TookItem
    /\ lines' = ChunkLines(provider, script[pos].bytes)
    /\ pc' = LoopPc(lines')
    /\ UNCHANGED <<inputVars, ret, consumerVars, chan, produced, sources, sendFailed,
                   doneSeen, sentinelSeen, sentAfterSentinel, errored>>

\* stream.next() yields Some(Err(e))
ReadFailure ==
    /\ pc = "next"
    /\ pos <= Len(script)
    /\ ~script[pos].ok
    /\ TookItem
    /\ errored' = TRUE
    /\ pc' = "neterr"
    /\ UNCHANGED <<inputVars, ret, consumerVars, lines, chan, produced, sources, sendFailed,
                   doneSeen, sentinelSeen, sentAfterSentinel>>

\* stream.next() yields None: the while loop ends, the task returns and
\* drops the sender and the body stream.
ReadEnd ==
    /\ pc = "next"
    /\ pos > Len(script)
    /\ ~stalls
    /\ pc' = "done"
    /\ UNCHANGED <<inputVars, ret, consumerVars, pos, lines, chan, historyVars>>

\* `continue` on a blank line
SkipLine ==
    /\ pc = "lines"
    /\ LineStep(provider, Head(lines)).act = "continue"
    /\ lines' = Tail(lines)
    /\ pc' = LoopPc(lines')
    /\ UNCHANGED <<inputVars, ret, consumerVars, pos, chan, historyVars>>

\* `break` on the [DONE] line
SeeSentinel ==
    /\ pc = "lines"
    /\ LineStep(provider, Head(lines)).act = "break"
    /\ lines' = <<>>
    /\ pc' = AfterForLoop
    /\ sentinelSeen' = TRUE
    /\ UNCHANGED <<inputVars, ret, consumerVars, pos, chan, produced, sources, sendFailed,
                   readAfterFail, doneSeen, readAfterDone, readAfterSentinel,
                   sentAfterSentinel, errored, readAfterError>>

\* A decoder that keeps state: once a line has failed to decode, every
\* later line is reported as a failure too.
PublishLineSticky ==
    /\ pc = "lines"
    /\ LineStep(provider, Head(lines)).act = "send"
    /\ rx = "open"
    /\ HasPermit(chan, provider)
    /\ LET ev == IF \E i \in 1..Len(produced) : produced[i].kind = "ParseError"
                 THEN FromStr(<<>>)
                 ELSE LineStep(provider, Head(lines)).ev
       IN  /\ chan' = Enqueue(chan, ev)
           /\ produced' = Append(produced, ev)
           /\ sources' = Append(sources, Head(lines))
           /\ doneSeen' = (doneSeen \/ (ev.kind = "Ok" /\ ev.done))
    /\ sentAfterSentinel' = (sentAfterSentinel \/ sentinelSeen)
    /\ lines' = Tail(lines)
    /\ pc' = LoopPc(lines')
    /\ UNCHANGED <<inputVars, ret, consumerVars, pos, sendFailed, readAfterFail,
                   readAfterDone, sentinelSeen, readAfterSentinel, errored,
                   readAfterError>>

\* tx.send(..).await returns Ok: the event is in the channel
PublishLine ==
    /\ pc = "lines"
    /\ LineStep(provider, Head(lines)).act = "send"
    /\ rx = "open"
    /\ HasPermit(chan, provider)
    /\ LET ev == LineStep(provider, Head(lines)).ev
       IN  /\ chan' = Enqueue(chan, ev)
           /\ produced' = Append(produced, ev)
           /\ sources' = Append(sources, Head(lines))
           /\ doneSeen' = (doneSeen \/ (ev.kind = "Ok" /\ ev.done))
    /\ sentAfterSentinel' = (sentAfterSentinel \/ sentinelSeen)
    /\ lines' = Tail(lines)
    /\ pc' = LoopPc(lines')
    /\ UNCHANGED <<inputVars, ret, consumerVars, pos, sendFailed, readAfterFail,
                   readAfterDone, sentinelSeen, readAfterSentinel, errored,
                   readAfterError>>

\* tx.send(..).await returns Err: the receiver is gone, `break`
PublishFails ==
    /\ pc = "lines"
    /\ LineStep(provider, Head(lines)).act = "send"
    /\ rx = "dropped"
    /\ sendFailed' = TRUE
    /\ lines' = <<>>
    /\ pc' = AfterForLoop
    /\ UNCHANGED <<inputVars, ret, consumerVars, pos, chan, produced, sources,
                   readAfterFail, doneSeen, readAfterDone, sentinelSeen,
                   readAfterSentinel, sentAfterSentinel, errored,
                   readAfterError>>

\* tx.send(Err(NetworkError(e))).await, then `break` out of the while loop
SendNetworkError ==
    /\ pc = "neterr"
    /\ \/ /\ rx = "open"
          /\ HasPermit(chan, provider)
          /\ chan' = Enqueue(chan, NetworkError)
          /\ produced' = Append(produced, NetworkError)
          /\ sources' = Append(sources, <<>>)
          /\ sentAfterSentinel' = (sentAfterSentinel \/ sentinelSeen)
          /\ UNCHANGED sendFailed
       \/ /\ rx = "dropped"
          /\ sendFailed' = TRUE
          /\ UNCHANGED <<chan, produced, sources, sentAfterSentinel>>
    /\ pc' = AfterNetworkError
    /\ UNCHANGED <<inputVars, ret, consumerVars, pos, lines, readAfterFail,
                   doneSeen, readAfterDone, sentinelSeen, readAfterSentinel,
                   errored, readAfterError>>

-----------------------------------------------------------------------------
(* The caller, holding ReceiverStream *)

NextEvent(q) == Head(q)

\* A sender that outlives the task, as when a clone is kept outside it.
SenderKeptAlive(p) == FALSE

\* tx, and every Arc clone of it, is owned by the task: the last sender is
\* dropped when the task returns.
SendersDropped(p) == p = "done"

Remaining(q) == Tail(q)

\* poll_next yields Some(item)
Recv ==
    /\ rx = "open"
    /\ chan # <<>>
    /\ endless => Len(received) < MaxEndlessRecv
    /\ received' = Append(received, NextEvent(chan))
    /\ chan' = Remaining(chan)
    /\ UNCHANGED <<inputVars, ret, pos, pc, lines, rx, eos, historyVars>>

\* poll_next yields None: the channel is empty and every sender is dropped
RecvEnd ==
    /\ rx = "open"
    /\ chan = <<>>
    /\ SendersDropped(pc)
    /\ ~eos
    /\ eos' = TRUE
    /\ UNCHANGED <<inputVars, ret, pos, pc, lines, chan, rx, received, historyVars>>

\* The caller drops the stream: the channel closes and its content is freed
Drop ==
    /\ rx = "open"
    /\ rx' = "dropped"
    /\ chan' = <<>>
    /\ UNCHANGED <<inputVars, ret, pos, pc, lines, received, eos, historyVars>>

-----------------------------------------------------------------------------

Next ==
    \/ StartStream
    \/ ActiveCall
    \/ GenerateCall
    \/ ContentCall
    \/ ReadChunk
    \/ ReadFailure
    \/ ReadEnd
    \/ SkipLine
    \/ SeeSentinel
    \/ PublishLine
    \/ PublishFails
    \/ SendNetworkError
    \/ Recv
    \/ RecvEnd
    \/ Drop

Spec == Init /\ [][Next]_vars

\* The runtime keeps running the spawned task whenever it can take a step.
Pump ==
    \/ ReadChunk
    \/ ReadFailure
    \/ ReadEnd
    \/ SkipLine
    \/ SeeSentinel
    \/ PublishLine
    \/ PublishFails
    \/ SendNetworkError

ShortBodies == UNION { [1..n -> BaseLines] : n \in 1..2 }

\* Behaviours under that scheduling, for the short bodies, the failures and
\* the bodies that never end.
FairInit ==
    /\ Init
    /\ ~stalls
    /\ \/ endless
       \/ op # "stream"
       \/ http # Accepted
       \/ script \in FailureScripts
       \/ script \in UNION { SplitsInto(Body(ls), MaxChunks) : ls \in ShortBodies }

FairSpec == FairInit /\ [][Next]_vars /\ WF_vars(Pump)

\* The same scheduling with a caller that keeps polling the stream; the
\* bodies that go silent are among the inputs.
PullInit ==
    /\ Init
    /\ \/ stalls
       \/ endless
       \/ op # "stream"
       \/ http # Accepted
       \/ script \in FailureScripts
       \/ script \in UNION { SplitsInto(Body(ls), MaxChunks) : ls \in ShortBodies }

PullSpec ==
    PullInit /\ [][Next]_vars /\ WF_vars(Pump) /\ WF_vars(Recv) /\ WF_vars(RecvEnd)

-----------------------------------------------------------------------------
(* Vocabulary of the properties *)

AllChunks == \A i \in 1..Len(script) : script[i].ok

\* The bytes of the whole body, however the transport cut them.
WholeBody == Concat([i \in 1..Len(script) |-> script[i].bytes])

WholeLines == Lines(Utf8Lossy(WholeBody))

\* The body is complete lines only.
Terminated == WholeBody # <<>> /\ Last(WholeBody) = LF

\* Every chunk ends where a line ends.
Aligned ==
    \A i \in 1..Len(script) :
        script[i].ok => (script[i].bytes # <<>> /\ Last(script[i].bytes) = LF)

IsRecord(l) == FromStr(l).kind = "Ok"

Decoded(ls) == [i \in 1..Len(ls) |-> FromStr(ls[i])]

Kinds(evs) == [i \in 1..Len(evs) |-> evs[i].kind]

Count(evs, k) == Cardinality({i \in 1..Len(evs) : evs[i].kind = k})

IsSuffix(s, t) == Len(s) <= Len(t) /\ SubSeq(t, Len(t) - Len(s) + 1, Len(t)) = s

\* Index in script of the item the transport handed over last.
LastTaken == IF pos = 1 THEN Len(script) ELSE pos - 1

\* A publish is waiting for a free slot of the channel.
Suspended ==
    /\ rx = "open"
    /\ ~HasPermit(chan, provider)
    /\ \/ pc = "neterr"
       \/ pc = "lines" /\ LineStep(provider, Head(lines)).act = "send"

\* A line that is neither blank, nor enveloped, nor the sentinel.
Plain(l) ==
    /\ Trim(l) # <<>>
    /\ ~StartsWith(l, DataPrefix)
    /\ Trim(l) # DoneToken

-----------------------------------------------------------------------------
(* Properties *)

\* C1: chunk-boundary independence.  When the body is N valid records
\* followed by the sentinel, then however the body is cut into chunks the
\* consumer that reads to the end has received exactly the N Partial events,
\* in record order, and no Malformed event.  (Stated for the Gemini pump,
\* the one that knows the sentinel.)
ChunkBoundaryIndependence ==
    ( /\ eos
      /\ provider = "gemini"
      /\ ~endless
      /\ Len(script) <= MaxChunks
      /\ AllChunks
      /\ \A i \in 1..Len(script) : IsValidUtf8(script[i].bytes)
      /\ Terminated
      /\ Len(WholeLines) >= 2
      /\ Last(WholeLines) = DoneToken
      /\ \A i \in 1..(Len(WholeLines) - 1) : IsRecord(WholeLines[i]) )
    => received = Decoded(Front(WholeLines))

\* C2: a record cut by the boundary between two chunks is reassembled: the
\* consumer receives one Partial event per record of the body, the same
\* events as when every record arrives whole, and no Malformed event.
SplitRecordReassembled ==
    ( /\ eos
      /\ ~endless
      /\ Len(script) = 2
      /\ AllChunks
      /\ Last(script[1].bytes) # LF
      /\ \A i \in 1..Len(script) : IsValidUtf8(script[i].bytes)
      /\ Terminated
      /\ \A i \in 1..Len(WholeLines) : IsRecord(WholeLines[i]) )
    => received = Decoded(WholeLines)

\* C3: per-record error isolation.  When a body of at most MaxChunks chunks
\* has whole lines in every chunk, each line yields exactly one event at its
\* position, Partial for a record and ParseError for a malformed line, and
\* the lines after a malformed one are still decoded and delivered: the
\* events published are always a prefix of the per-line results and a
\* consumer that reads to the end has all of them.
PerRecordErrorIsolation ==
    ( /\ ~endless
      /\ Len(script) <= MaxChunks
      /\ AllChunks
      /\ Aligned
      /\ IsValidUtf8(WholeBody)
      /\ \A i \in 1..Len(WholeLines) : Plain(WholeLines[i]) )
    => /\ IsPrefix(produced, Decoded(WholeLines))
       /\ eos => received = Decoded(WholeLines)

\* C3 witness: Partial, ParseError, Partial were delivered, then the end.
PerRecordErrorIsolationWitness ==
    /\ eos
    /\ AllChunks
    /\ Aligned
    /\ Kinds(received) = <<"Ok", "ParseError", "Ok">>

\* C4: cooperative cancellation.  Once a publish has failed because the
\* receiver is gone, the task takes nothing more from the transport.
NoReadAfterFailedPublish == ~readAfterFail

\* C5: no orphaned producer.  After the consumer drops the stream the task
\* eventually returns, also when the body never ends.
NoOrphanedProducer == (rx = "dropped") ~> (pc = "done")

\* C6: a transport failure is fatal and final.  At most one NetworkError
\* event is published; after the failure nothing more is taken from the
\* transport and the task only publishes that event and returns; when no
\* publish failed the event is the last one published, and a consumer that
\* reads to the end received it last.
TransportFailureIsFinal ==
    /\ Count(produced, "NetworkError") <= 1
    /\ ~readAfterError
    /\ errored => pc \in {"neterr", "done"}
    /\ (errored /\ pc = "done" /\ ~sendFailed)
          => produced # <<>> /\ Last(produced) = NetworkError
    /\ (errored /\ eos)
          => received = produced /\ Last(received) = NetworkError

\* C6 witness: the consumer read a Partial event, then the NetworkError, then
\* the end, while the transport still had an item to report.
TransportFailureIsFinalWitness ==
    /\ errored
    /\ eos
    /\ Len(received) >= 2
    /\ Last(received) = NetworkError
    /\ pos <= Len(script)

\* C7: a terminal payload ends the stream.  Once the Ollama pump has
\* published a record with done = true it takes nothing more from the
\* transport.  (Stated for bodies whose chunks hold whole lines.)
TerminalPayloadEndsStream ==
    (provider = "ollama" /\ Aligned) => ~readAfterDone

\* C8: the sentinel ends the stream.  Once the Gemini pump has recognized a
\* [DONE] line it takes nothing more from the transport and publishes no
\* further event.  (Stated for bodies whose chunks hold whole lines.)
SentinelEndsStream ==
    (provider = "gemini" /\ Aligned) => (~readAfterSentinel /\ ~sentAfterSentinel)

\* C9: FIFO delivery.  What the consumer has received is a prefix of what the
\* pump published, in the same order; while the receiver is open the events
\* still queued are exactly the rest, in order.
FifoDelivery ==
    /\ IsPrefix(received, produced)
    /\ rx = "open" => produced = received \o chan

\* C9 witness: two different events were received in order while a third
\* one waits in the channel.
FifoDeliveryWitness ==
    /\ Len(received) >= 2
    /\ received[1] # received[2]
    /\ chan # <<>>
    /\ Last(chan) # received[1]

\* C10: back-pressure.  The channel never holds more than its capacity;
\* while a publish waits for a free slot the task takes nothing from the
\* transport and stays on the same line of the same chunk; and the lines
\* the task still holds are the rest of the one chunk it took last.
BackPressure ==
    [][ /\ Len(chan') <= Capacity(provider)
        /\ Suspended => (pos' = pos /\ lines' = lines /\ produced' = produced)
        /\ pc = "lines" => IsSuffix(lines, ChunkLines(provider, script[LastTaken].bytes))
      ]_vars

\* C10 witness: the Gemini pump waits with 100 events queued.
BackPressureWitness ==
    /\ provider = "gemini"
    /\ Suspended
    /\ Len(chan) = GeminiCapacity
    /\ pos <= Len(script)

ActiveTrueOrError ==
    (op = "active" /\ pc = "returned") =>
       IF http.sent /\ IsSuccess(http.status)
       THEN ret = Returned("Ok", "true")
       ELSE ret.kind \in {"NetworkError", "RequestError", "ParseError"}

\* C12: the sequence is finite.  When the body ends or fails after finitely
\* many chunks and the consumer keeps pulling, the consumer eventually
\* observes end-of-sequence (unless it drops the stream first).
FiniteSequence ==
    (rx = "open" /\ ~endless /\ ~stalls) ~> (eos \/ rx = "dropped")

\* C12 witness: the end was observed after two events had been pulled from a
\* body that failed.
FiniteSequenceWitness ==
    /\ eos
    /\ ~endless /\ ~stalls
    /\ Len(received) >= 2
    /\ errored

\* C13: no infinite hang.  When the body goes silent for ever, the consumer
\* that keeps pulling still eventually receives a NetworkError event and
\* then the end of the sequence.
NoInfiniteHang ==
    (rx = "open" /\ stalls)
       ~> (rx = "dropped" \/ (eos /\ received # <<>> /\ Last(received) = NetworkError))

\* An event carries the raw text l of the line it was made from.
CarriesRawText(ev, l) == "raw" \in DOMAIN ev /\ ev.raw = l

\* C14: one chunk holding a malformed line and then a record with
\* done = true gives the consumer of the Ollama stream exactly two events and
\* then the end: a Malformed event carrying the raw text of the bad line
\* with the decode error, then the Partial event with done = true.
MalformedThenDone ==
    ( /\ eos
      /\ provider = "ollama"
      /\ Len(script) = 1
      /\ AllChunks
      /\ Len(WholeLines) = 2
      /\ ~IsRecord(WholeLines[1])
      /\ IsRecord(WholeLines[2]) /\ FromStr(WholeLines[2]).done )
    => /\ Len(received) = 2
       /\ received[1].kind = "ParseError"
       /\ CarriesRawText(received[1], WholeLines[1])
       /\ received[2] = FromStr(WholeLines[2])

NonEmptyLines(b) ==
    LET ls == Lines(b) IN Cardinality({i \in 1..Len(ls) : ls[i] # <<>>})

\* Number of non-empty lines in the first n items of the script.
RECURSIVE LinesReceived(_)
LinesReceived(n) ==
    IF n = 0 THEN 0 ELSE LinesReceived(n - 1) + NonEmptyLines(script[n].bytes)

\* C17: no silent loss in the Ollama pump.  While the consumer stays
\* connected, every non-empty line of every chunk yields exactly one event,
\* also in chunks that are not valid UTF-8: when the task has returned, the
\* number of events published is the number of non-empty lines received.
NoSilentLoss ==
    ( /\ provider = "ollama"
      /\ pc = "done"
      /\ ~sendFailed
      /\ Len(script) <= MaxChunks
      /\ AllChunks )
    => Len(produced) = LinesReceived(Len(script))

\* The text of a line that is handed to the decoder: for Gemini, the line
\* without its `data: ` prefix.
Payload(l) ==
    IF provider = "gemini" /\ StartsWith(l, DataPrefix)
    THEN SubSeq(l, 7, Len(l)) ELSE l

Payloads(ls) == [i \in 1..Len(ls) |-> Payload(ls[i])]

IsOk(ev) == ev.kind = "Ok"

\* C18: no truncation at the terminal marker.  When a body arrives as one
\* chunk of whole lines and the consumer stays connected, every record of
\* that chunk has been decoded and published by the time the task returns,
\* wherever a [DONE] line or a record with done = true stands in the chunk.
NoTruncationAtMarker ==
    ( /\ pc = "done"
      /\ ~sendFailed
      /\ ~endless
      /\ Len(script) = 1
      /\ AllChunks
      /\ IsValidUtf8(script[1].bytes)
      /\ Terminated )
    => SelectSeq(produced, IsOk) = Decoded(SelectSeq(Payloads(WholeLines), IsRecord))

\* A sentinel line: [DONE], with or without the `data: ` prefix in front
\* and with whitespace around the token.
IsSentinelLine(l) == Trim(Payload(l)) = DoneToken

\* C19: in the Gemini pump a sentinel line never produces an event.  While
\* the line the loop is at is a sentinel line, no step publishes anything
\* or attempts a send, and the step that leaves the line is the recognition
\* of the sentinel.
SentinelLineIsSilent ==
    [][ ( /\ provider = "gemini"
          /\ pc = "lines"
          /\ IsSentinelLine(Head(lines)) )
        => ( /\ produced' = produced
             /\ sendFailed' = sendFailed
             /\ (lines' # lines => (sentinelSeen' /\ lines' = <<>>)) ) ]_vars

\* C19 witness: a body whose only line is `data:  [DONE] ` has been read to
\* its end; the sentinel was recognized and nothing was published.
SentinelLineIsSilentWitness ==
    /\ provider = "gemini"
    /\ pc = "done"
    /\ sentinelSeen
    /\ produced = <<>>
    /\ Len(script) = 1
    /\ script[1].ok
    /\ script[1].bytes = Body(<<DataPrefix \o <<SP>> \o DoneToken \o <<SP>>>>)

\* C20: blank lines carry no protocol meaning in either pump.  While the
\* line the loop is at is empty or holds only whitespace, no step publishes
\* an event or attempts a send, and the step that leaves the line goes on
\* to the next line of the chunk.
BlankLinesAreSilent ==
    [][ ( /\ pc = "lines"
          /\ Trim(Head(lines)) = <<>> )
        => ( /\ produced' = produced
             /\ sendFailed' = sendFailed
             /\ (lines' # lines => lines' = Tail(lines)) ) ]_vars

\* The boundary between the two chunks of the script falls inside the
\* two-byte encoding of one character.
SplitInsideCharacter ==
    /\ Len(script) = 2
    /\ AllChunks
    /\ script[1].bytes # <<>>
    /\ script[2].bytes # <<>>
    /\ Last(script[1].bytes) = "C3"
    /\ Head(script[2].bytes) = "A9"

\* C21: multi-byte boundary safety.  When a two-byte character is cut by
\* the boundary between two chunks, the consumer that reads to the end has
\* received the events of the same body arriving in one chunk: one event
\* per line, no record lost and no extra Malformed event.
MultiByteBoundarySafety ==
    ( /\ eos
      /\ ~endless
      /\ SplitInsideCharacter
      /\ Terminated
      /\ IsValidUtf8(WholeBody)
      /\ \A i \in 1..Len(WholeLines) : Plain(WholeLines[i]) )
    => received = Decoded(WholeLines)

\* What a step of the for loop did with the line it left, as seen in the
\* histories: it published ev, recognized the sentinel, or did nothing.
StepDid(st) ==
    CASE st.act = "send" ->
           \/ produced' = Append(produced, st.ev) /\ sendFailed' = sendFailed
           \/ produced' = produced /\ sendFailed'
      [] st.act = "break" ->
           produced' = produced /\ sendFailed' = sendFailed /\ sentinelSeen'
      [] OTHER ->
           /\ produced' = produced
           /\ sendFailed' = sendFailed
           /\ sentinelSeen' = sentinelSeen

\* C22: envelope stripping in the Gemini pump.  The step that leaves a
\* line `data: X` does what the loop does for the line X alone: the same
\* event, the sentinel recognized, or nothing.
EnvelopeStripping ==
    [][ ( /\ provider = "gemini"
          /\ pc = "lines"
          /\ StartsWith(Head(lines), DataPrefix)
          /\ lines' # lines )
        => StepDid(GeminiLine(SubSeq(Head(lines), 7, Len(Head(lines))))) ]_vars

\* The control state of the pump, from what has happened so far.  Draining:
\* a terminal record was published (Ollama), the sentinel was recognized,
\* the transport failed or a publish found the receiver gone.  Closed: the
\* task has returned and dropped the sender.
StreamState ==
    IF pc = "done" THEN "Closed"
    ELSE IF \/ provider = "ollama" /\ doneSeen
            \/ sentinelSeen
            \/ errored
            \/ sendFailed
         THEN "Draining"
    ELSE "Active"

\* This step takes a chunk or a failure from the transport.
TransportRead ==
    /\ pc = "next"
    /\ pc' # "done"
    /\ <<pos, lines, errored, readAfterFail, readAfterDone, readAfterSentinel,
         readAfterError>>' #
       <<pos, lines, errored, readAfterFail, readAfterDone, readAfterSentinel,
         readAfterError>>

\* C23: the stream state is monotone.  Once the pump is no longer Active it
\* takes nothing more from the transport, and once the consumer has
\* observed end-of-sequence no later pull yields an event.
StateIsMonotone ==
    [][ /\ StreamState # "Active" => ~TransportRead
        /\ eos => (eos' /\ received' = received) ]_vars

\* C26: the Ollama pump never closes the stream early.  When the consumer
\* has observed end-of-sequence, the transport had reported the end of the
\* body or a failure, and every event the pump published has been
\* delivered before.
NoEarlyClose ==
    (provider = "ollama" /\ eos)
    => /\ pos > Len(script) \/ errored
       /\ received = produced

\* C26 witness: a body of two chunks was read to its end and the consumer
\* received the events of both chunks before the end-of-sequence.
NoEarlyCloseWitness ==
    /\ provider = "ollama"
    /\ eos
    /\ ~endless
    /\ Len(script) = 2
    /\ AllChunks
    /\ Aligned
    /\ Len(received) = 2

\* A line on which the two pumps are said to agree: no `data: ` prefix, not
\* the sentinel, and not whitespace only (an empty line is allowed).
Common(l) ==
    /\ ~StartsWith(l, DataPrefix)
    /\ Trim(l) # DoneToken
    /\ l # <<>> => Trim(l) # <<>>

\* C27: the two pumps are one engine.  In every state either pump can be
\* in, with a chunk of valid UTF-8 and a line as above, the other pump
\* would take the same step: it cuts the chunk into the same lines, does
\* the same with the line (skip, or publish the same event), and its
\* publish completes or waits for the consumer in the same states of the
\* channel.
OneEngine ==
    /\ ( /\ pc = "next"
         /\ pos <= Len(script)
         /\ script[pos].ok
         /\ IsValidUtf8(script[pos].bytes) )
       => ChunkLines("ollama", script[pos].bytes) = ChunkLines("gemini", script[pos].bytes)
    /\ (pc = "lines" /\ Common(Head(lines)))
       => LineStep("ollama", Head(lines)) = LineStep("gemini", Head(lines))
    /\ ( /\ rx = "open"
         /\ \/ pc = "neterr"
            \/ pc = "lines" /\ LineStep(provider, Head(lines)).act = "send" )
       => HasPermit(chan, "ollama") = HasPermit(chan, "gemini")

\* The lines of the body of a non-streaming response and what they decode to.
BodyLines == Lines(body)

AllDecode == \A i \in 1..Len(BodyLines) : ParseResponse(BodyLines[i]).ok

Parsed(i) == ParseResponse(BodyLines[i]).value

\* The value of optional member f in the last record that has it.
LastPresent(f) ==
    LET has == {i \in 1..Len(BodyLines) : Parsed(i).optional[f] # None}
    IN  IF has = {} THEN None
        ELSE Parsed(CHOOSE i \in has : \A j \in has : j <= i).optional[f]

\* generate_completion has returned for a success response whose body was read.
GenerateReturned ==
    /\ op = "generate"
    /\ pc = "returned"
    /\ http = Accepted

\* C24: the non-streaming merge.  For a success body of k >= 1 valid
\* records generate_completion returns the response whose text is the
\* concatenation of the k texts in line order, whose done is the last
\* record's, whose model and created_at are the first record's, and whose
\* optional members each have the value of the last record that has one.
MergedResponse ==
    (GenerateReturned /\ Len(BodyLines) >= 1 /\ AllDecode)
    => /\ ret.kind = "Ok"
       /\ ret.value.response = Concat([i \in 1..Len(BodyLines) |-> Parsed(i).response])
       /\ ret.value.done = Parsed(Len(BodyLines)).done
       /\ ret.value.model = Parsed(1).model
       /\ ret.value.created_at = Parsed(1).created_at
       /\ \A f \in OptionalFields : ret.value.optional[f] = LastPresent(f)

\* C24 witness: three records were merged; the model is the first
\* record's, eval_count is the second record's because the third has none,
\* and done is the third record's.
MergedResponseWitness ==
    /\ GenerateReturned
    /\ Len(BodyLines) = 3
    /\ ret.kind = "Ok"
    /\ ret.value.model = "m2"
    /\ ret.value.response = <<"b", "a", "a">>
    /\ ret.value.optional["eval_count"] = "ec2"
    /\ ret.value.optional["done_reason"] = "dr1"
    /\ ~ret.value.done

\* C29: merge is associative.  For the three records a, b, c of a body,
\* merging b into a and then c, which is what generate_completion returns,
\* gives the same response as merging c into b and the result into a.
MergeIsAssociative ==
    (GenerateReturned /\ Len(BodyLines) = 3 /\ AllDecode)
    => /\ ret.kind = "Ok"
       /\ ret.value = Merge(Merge(Parsed(1), Parsed(2)), Parsed(3))
       /\ ret.value = Merge(Parsed(1), Merge(Parsed(2), Parsed(3)))

\* C29 witness: three records that each have their own eval_count were
\* merged, and the result has the third one.
MergeIsAssociativeWitness ==
    /\ GenerateReturned
    /\ Len(BodyLines) = 3
    /\ ret.kind = "Ok"
    /\ Parsed(1).optional["eval_count"] = "ec1"
    /\ Parsed(2).optional["eval_count"] = "ec2"
    /\ Parsed(3).optional["eval_count"] = "ec3"
    /\ ret.value.optional["eval_count"] = "ec3"
    /\ ret.value.optional["done_reason"] = "dr2"

\* What a non-streaming call returns for a response that is not a success,
\* by whether its body can be read.
RefusalResult(readable) ==
    IF readable THEN ret = Returned("RequestError", http.text.str)
    ELSE ret = Returned("NetworkError", "")

\* The parts of C25 about a success body that was read.
SuccessBodyAllOrNothing ==
    /\ (IsSuccess(http.status) /\ http.text.ok /\ ~AllDecode)
       => ret = Returned("ParseError", "serde")
    /\ (IsSuccess(http.status) /\ http.text.ok /\ body = <<>>)
       => ret = Returned("ParseError", "No valid JSON objects found in response")
    /\ ret.kind = "Ok"
       => (IsSuccess(http.status) /\ http.text.ok /\ AllDecode /\ Len(BodyLines) >= 1)

\* C25 as stated: non-streaming decoding is all-or-nothing, and every
\* response that is not a success returns RequestError with the body text.
AllOrNothingAsStated ==
    (op = "generate" /\ pc = "returned" /\ http.sent)
    => /\ SuccessBodyAllOrNothing
       /\ ~IsSuccess(http.status) => RefusalResult(TRUE)

\* C25 amended: as stated, except that a response that is not a success
\* returns RequestError with the body text when the body can be read and
\* NetworkError when reading it fails.
AllOrNothing ==
    (op = "generate" /\ pc = "returned" /\ http.sent)
    => /\ SuccessBodyAllOrNothing
       /\ ~IsSuccess(http.status) => RefusalResult(http.text.ok)

\* C25 witness: a body whose second line of three fails to decode returned
\* ParseError although the first and third lines are records.
AllOrNothingWitness ==
    /\ GenerateReturned
    /\ Len(BodyLines) = 3
    /\ ParseResponse(BodyLines[1]).ok
    /\ ~ParseResponse(BodyLines[2]).ok
    /\ ParseResponse(BodyLines[3]).ok
    /\ ret.kind = "ParseError"

\* The body of a generateContent response is JSON with a top-level `error`.
HasErrorMember == ParseJson(body).ok /\ GetError(ParseJson(body)) # <<>>

\* The parts of C28 about a success body that was read.
ErrorMemberFirst ==
    (IsSuccess(http.status) /\ http.text.ok /\ HasErrorMember)
    => ret = Returned("ApiError", GetError(ParseJson(body))[1])

\* C28 as stated: a success body with a top-level `error` member returns
\* ApiError carrying that member, never Ok and never ParseError, and every
\* response that is not a success returns RequestError.
ApiErrorAsStated ==
    (op = "content" /\ pc = "returned" /\ http.sent)
    => /\ ErrorMemberFirst
       /\ ~IsSuccess(http.status) => ret.kind = "RequestError"

\* C28 amended: as stated, except that a response that is not a success
\* returns RequestError with the body text when the body can be read and
\* NetworkError when reading it fails.
ApiErrorFirst ==
    (op = "content" /\ pc = "returned" /\ http.sent)
    => /\ ErrorMemberFirst
       /\ ~IsSuccess(http.status) => RefusalResult(http.text.ok)

\* C28 witness: a body that has an `error` member and also a `candidates`
\* member that fits the schema returned ApiError.
ApiErrorFirstWitness ==
    /\ op = "content"
    /\ pc = "returned"
    /\ http = Accepted
    /\ body = <<"{", "candidates", "error", "}">>
    /\ ret = Returned("ApiError", "error")

====
